---- MODULE Spec2Model ----
(***************************************************************************)
(* Model of scripts/helpers.mjs: the icon rename workflow (renameIcon)     *)
(* acting on a working tree and a git index, and the fingerprint helpers   *)
(* (hash, generateHashedKey, hasDuplicatedChildren).                       *)
(***************************************************************************)
EXTENDS Integers, Sequences, FiniteSets, TLC

VARIABLES
  svg,        \* working tree: icon name -> content of <name>.svg, or NoSvg
  json,       \* working tree: icon name -> text of <name>.json, or NoFile
  idxSvg,     \* git index: icon name -> staged content of <name>.svg, or NoSvg
  idxJson,    \* git index: icon name -> staged text of <name>.json, or NoFile
  pc,         \* position of the running renameIcon call
  oldName,    \* argument of the running call
  newName,    \* argument of the running call
  jsonData,   \* local variable jsonData (the parsed metadata object)
  result,     \* "none" while running, "ok" on return, else the error thrown
  calls,      \* history: number of calls started so far
  steps,      \* history: the mutation steps the running call has completed
  pre,        \* history: tree and index at the moment the call started
  prev,       \* history: summary of the previous completed call
  hInput,     \* fingerprint engine: arguments of the pending hash call
  hOutput,    \* fingerprint engine: value returned by hash
  children,   \* fingerprint engine: argument of hasDuplicatedChildren
  dupOutput   \* fingerprint engine: value returned by hasDuplicatedChildren

renameVars == <<svg, json, idxSvg, idxJson, pc, oldName, newName,
                jsonData, result, calls, steps, pre, prev>>
hashVars == <<hInput, hOutput, children, dupOutput>>
vars == <<svg, json, idxSvg, idxJson, pc, oldName, newName,
          jsonData, result, calls, steps, pre, prev,
          hInput, hOutput, children, dupOutput>>

----------------------------------------------------------------------------
(* Bounds *)

\* longest aliases list of an initial metadata file
MaxAliases == 2
\* longest input string of a checked hash call
MaxStrLen == 3
\* largest collection handed to hasDuplicatedChildren
MaxChildren == 3
\* number of renameIcon calls made one after the other
MaxCalls == 3

----------------------------------------------------------------------------
(* JSON values and JSON text *)

Names == {"a", "b", "c"}

\* A JSON value of the kinds the metadata files hold.
Arr(s) == [t |-> "arr", arr |-> s, num |-> 0, str |-> ""]
Num(n) == [t |-> "num", arr |-> <<>>, num |-> n, str |-> ""]
Str(s) == [t |-> "str", arr |-> <<>>, num |-> 0, str |-> s]

\* One "key": value member of an object.
Member(k, v) == [k |-> k, v |-> v]

\* The text of a file: garbage, or the members of a JSON object as written
\* (a key may be written twice in a text) with the indentation it was
\* printed with.  The metadata format is a JSON object; a text that parses
\* to another kind of value (null, an array) is not among the files.
NoFile == [kind |-> "nofile", indent |-> 0, members |-> <<>>]
Garbage == [kind |-> "garbage", indent |-> 0, members |-> <<>>]
JsonText(indent, members) == [kind |-> "json", indent |-> indent, members |-> members]
NoSvg == "nofile"

HasKey(obj, k) == \E i \in 1..Len(obj) : obj[i].k = k
KeyIndex(obj, k) == CHOOSE i \in 1..Len(obj) : obj[i].k = k
Get(obj, k) == obj[KeyIndex(obj, k)].v

\* obj[k] = v on a JavaScript object: an existing key keeps its place, a new
\* key goes last.
SetKey(obj, k, v) ==
  IF HasKey(obj, k)
    THEN [i \in 1..Len(obj) |-> IF obj[i].k = k THEN Member(k, v) ELSE obj[i]]
    ELSE Append(obj, Member(k, v))

\* delete obj[k]
DeleteKey(obj, k) == SelectSeq(obj, LAMBDA m : m.k # k)

RECURSIVE ParseMembers(_, _)
ParseMembers(members, acc) ==
  IF members = <<>> THEN acc
  ELSE ParseMembers(Tail(members), SetKey(acc, Head(members).k, Head(members).v))

\* JSON.parse of an object text: a key written twice keeps the place of its
\* first occurrence and the value of its last.
JSONparse(text) == ParseMembers(text.members, <<>>)

\* JSON.parse throws on this text
ParseThrows(text) == text.kind # "json"

\* variant: only the fields of a closed record type are written
JSONstringifyKnownFields(obj, indent) ==
  JsonText(indent, SelectSeq(obj, LAMBDA m : m.k \in {"aliases", "tags"}))

\* JSON.stringify(value, null, indent)
JSONstringify(obj, indent) == JsonText(indent, obj)

----------------------------------------------------------------------------
(* The rename workflow: renameIcon(ICONS_DIR, oldName, newName, logInfo) *)

\* the inner fileExists helper: fs.access resolves, or the catch returns false
fileExists(tree, name, none) == tree[name] # none

\* variant: the entry is copied, the source stays
gitCopy(files, from, to, none) ==
  [n \in Names |-> IF n = to THEN files[from] ELSE files[n]]

\* git mv <from> <to> on one map of the tree or of the index: the entry moves
gitMv(files, from, to, none) ==
  [n \in Names |-> IF n = to THEN files[from] ELSE IF n = from THEN none ELSE files[n]]

\* git mv refuses a source that is not under version control
MvRefused(index, from, none) == index[from] = none

\* Array.prototype.filter(name => name !== newName)
filterAliases(aliases, new) == SelectSeq(aliases, LAMBDA name : name # new)

\* Array.prototype.push(x): the array grows in place, the call returns the new length
pushReturn(array, x) == Len(Append(array, x))

\* value.length of a JSON value; a number has none (undefined, here -1)
lengthOf(v) == IF v.t = "arr" THEN Len(v.arr) ELSE -1

\* Array.isArray(jsonData.aliases)
isArrayAliases(obj) == HasKey(obj, "aliases") /\ Get(obj, "aliases").t = "arr"

\* lines 266-273: the alias migration on the parsed object
migrateAliases(obj, old, new) ==
  IF isArrayAliases(obj)
    THEN LET assigned == Num(pushReturn(filterAliases(Get(obj, "aliases").arr, new), old))
             obj1 == SetKey(obj, "aliases", assigned)
         IN IF lengthOf(Get(obj1, "aliases")) = 0 THEN DeleteKey(obj1, "aliases") ELSE obj1
    ELSE SetKey(obj, "aliases", Arr(<<old>>))

Tree == [svg |-> svg, json |-> json, idxSvg |-> idxSvg, idxJson |-> idxJson]

NoCall == [old |-> "", new |-> "", result |-> "none", bare |-> FALSE]

\* the call just completed, as remembered by the next one
Summary ==
  [old |-> oldName, new |-> newName, result |-> result,
   bare |-> /\ pre.json[oldName].kind = "json"
            /\ ~HasKey(JSONparse(pre.json[oldName]), "aliases")]

\* a call starts: the arguments are bound, nothing has been touched yet
Call ==
  /\ pc \in {"idle", "done"}
  /\ calls < MaxCalls
  /\ \E old \in Names, new \in Names :
       /\ oldName' = old
       /\ newName' = new
  /\ prev' = IF pc = "done" /\ result = "ok" THEN Summary ELSE NoCall
  /\ pre' = Tree
  /\ pc' = "chkNewSvg"
  /\ result' = "none"
  /\ steps' = <<>>
  /\ calls' = calls + 1
  /\ jsonData' = <<>>
  /\ UNCHANGED <<svg, json, idxSvg, idxJson, hashVars>>

Throw(err) ==
  /\ pc' = "done"
  /\ result' = err

\* variant: the old artwork is looked for before the new one
CheckNewSvgAfterOldSvg ==
  /\ pc = "chkNewSvg"
  /\ IF ~fileExists(svg, oldName, NoSvg) THEN Throw("ErrOldSvgMissing")
     ELSE IF fileExists(svg, newName, NoSvg) THEN Throw("ErrNewSvgExists")
     ELSE pc' = "chkNewJson" /\ UNCHANGED result
  /\ UNCHANGED <<svg, json, idxSvg, idxJson, oldName, newName, jsonData,
                 calls, steps, pre, prev, hashVars>>

\* lines 249-251
CheckNewSvg ==
  /\ pc = "chkNewSvg"
  /\ IF fileExists(svg, newName, NoSvg) THEN Throw("ErrNewSvgExists")
     ELSE pc' = "chkNewJson" /\ UNCHANGED result
  /\ UNCHANGED <<svg, json, idxSvg, idxJson, oldName, newName, jsonData,
                 calls, steps, pre, prev, hashVars>>

\* lines 252-254
CheckNewJson ==
  /\ pc = "chkNewJson"
  /\ IF fileExists(json, newName, NoFile) THEN Throw("ErrNewJsonExists")
     ELSE pc' = "chkOldSvg" /\ UNCHANGED result
  /\ UNCHANGED <<svg, json, idxSvg, idxJson, oldName, newName, jsonData,
                 calls, steps, pre, prev, hashVars>>

\* lines 255-257
CheckOldSvg ==
  /\ pc = "chkOldSvg"
  /\ IF ~fileExists(svg, oldName, NoSvg) THEN Throw("ErrOldSvgMissing")
     ELSE pc' = "chkOldJson" /\ UNCHANGED result
  /\ UNCHANGED <<svg, json, idxSvg, idxJson, oldName, newName, jsonData,
                 calls, steps, pre, prev, hashVars>>

\* variant: the fourth check never throws
CheckOldJsonSkipped ==
  /\ pc = "chkOldJson"
  /\ pc' = "mvSvg"
  /\ UNCHANGED <<svg, json, idxSvg, idxJson, oldName, newName, jsonData, result,
                 calls, steps, pre, prev, hashVars>>

\* lines 258-260
CheckOldJson ==
  /\ pc = "chkOldJson"
  /\ IF ~fileExists(json, oldName, NoFile) THEN Throw("ErrOldJsonMissing")
     ELSE pc' = "mvSvg" /\ UNCHANGED result
  /\ UNCHANGED <<svg, json, idxSvg, idxJson, oldName, newName, jsonData,
                 calls, steps, pre, prev, hashVars>>

\* line 262: await git.mv(old.svg, new.svg); the promise rejects when git
\* refuses the move or the command fails
MoveSvg ==
  /\ pc = "mvSvg"
  /\ \E fails \in BOOLEAN :
       IF fails \/ MvRefused(idxSvg, oldName, NoSvg)
         THEN Throw("ErrMoveSvg") /\ UNCHANGED <<svg, idxSvg, steps>>
         ELSE /\ svg' = gitMv(svg, oldName, newName, NoSvg)
              /\ idxSvg' = gitMv(idxSvg, oldName, newName, NoSvg)
              /\ steps' = Append(steps, "moveSvg")
              /\ pc' = "mvJson"
              /\ UNCHANGED result
  /\ UNCHANGED <<json, idxJson, oldName, newName, jsonData,
                 calls, pre, prev, hashVars>>

\* line 263: await git.mv(old.json, new.json)
MoveJson ==
  /\ pc = "mvJson"
  /\ \E fails \in BOOLEAN :
       IF fails \/ MvRefused(idxJson, oldName, NoFile)
         THEN Throw("ErrMoveJson") /\ UNCHANGED <<json, idxJson, steps>>
         ELSE /\ json' = gitMv(json, oldName, newName, NoFile)
              /\ idxJson' = gitMv(idxJson, oldName, newName, NoFile)
              /\ steps' = Append(steps, "moveJson")
              /\ pc' = "read"
              /\ UNCHANGED result
  /\ UNCHANGED <<svg, idxSvg, oldName, newName, jsonData,
                 calls, pre, prev, hashVars>>

\* variant: a parse failure moves the two files back before it throws
ReadParseRollback ==
  /\ pc = "read"
  /\ IF ParseThrows(json[newName])
       THEN /\ Throw("ErrParse")
            /\ svg' = gitMv(svg, newName, oldName, NoSvg)
            /\ json' = gitMv(json, newName, oldName, NoFile)
            /\ idxSvg' = gitMv(idxSvg, newName, oldName, NoSvg)
            /\ idxJson' = gitMv(idxJson, newName, oldName, NoFile)
            /\ UNCHANGED <<jsonData, steps>>
       ELSE /\ jsonData' = JSONparse(json[newName])
            /\ steps' = Append(steps, "readParse")
            /\ pc' = "write"
            /\ UNCHANGED <<result, svg, json, idxSvg, idxJson>>
  /\ UNCHANGED <<oldName, newName, calls, pre, prev, hashVars>>

\* lines 264-265: read the relocated metadata and parse it
ReadParse ==
  /\ pc = "read"
  /\ IF ParseThrows(json[newName])
       THEN Throw("ErrParse") /\ UNCHANGED <<jsonData, steps>>
       ELSE /\ jsonData' = JSONparse(json[newName])
            /\ steps' = Append(steps, "readParse")
            /\ pc' = "write"
            /\ UNCHANGED result
  /\ UNCHANGED <<svg, json, idxSvg, idxJson, oldName, newName,
                 calls, pre, prev, hashVars>>

\* lines 266-274: migrate the aliases and rewrite the metadata file
MigrateWrite ==
  /\ pc = "write"
  /\ jsonData' = migrateAliases(jsonData, oldName, newName)
  /\ json' = [json EXCEPT ![newName] = JSONstringify(jsonData', 2)]
  /\ steps' = Append(steps, "write")
  /\ pc' = "add"
  /\ UNCHANGED <<svg, idxSvg, idxJson, oldName, newName, result,
                 calls, pre, prev, hashVars>>

\* lines 275-283: await git.add(new.json); the console output that follows
\* changes no state and is not modelled
Stage ==
  /\ pc = "add"
  /\ \E fails \in BOOLEAN :
       IF fails
         THEN Throw("ErrAdd") /\ UNCHANGED <<idxJson, steps>>
         ELSE /\ idxJson' = [idxJson EXCEPT ![newName] = json[newName]]
              /\ steps' = Append(steps, "stage")
              /\ pc' = "done"
              /\ result' = "ok"
  /\ UNCHANGED <<svg, json, idxSvg, oldName, newName, jsonData,
                 calls, pre, prev, hashVars>>

----------------------------------------------------------------------------
(* The fingerprint engine: hash, generateHashedKey, hasDuplicatedChildren *)

\* A string is the sequence of its UTF-16 code units.  A 32-bit integer is
\* the pair of its 16-bit halves, so that no product leaves the range of
\* TLC's integers.
Half == 2^16
Word(hi, lo) == [hi |-> hi, lo |-> lo]

\* the default seed 5381
DefaultSeed == Word(0, 5381)

RECURSIVE Xor(_, _)
\* bitwise exclusive or of two naturals
Xor(a, b) ==
  IF a = 0 THEN b
  ELSE IF b = 0 THEN a
  ELSE 2 * Xor(a \div 2, b \div 2) + (((a % 2) + (b % 2)) % 2)

\* ToInt32(value * 33): the low 32 bits of the product
Times33(w) ==
  LET lo33 == w.lo * 33
  IN Word(((w.hi * 33) + (lo33 \div Half)) % Half, lo33 % Half)

\* (seed * 33) ^ charCode, charCode a 16-bit code unit
hashStep(w, charCode) ==
  LET p == Times33(w) IN Word(p.hi, Xor(p.lo, charCode))

RECURSIVE hashLoop(_, _, _)
\* the while loop: the code units from the last to the first (the test on
\* next is always true: it makes TLC evaluate next before the next
\* iteration instead of nesting the pending evaluations)
hashLoop(string, i, seed) ==
  IF i = 0 THEN seed
  ELSE LET next == hashStep(seed, string[i])
       IN IF next.hi >= 0 THEN hashLoop(string, i - 1, next) ELSE seed

\* the digit d of a base-36 rendering, as its character code: 0-9, then a-z
digitChar(d) == IF d < 10 THEN 48 + d ELSE 87 + d

\* quotient and remainder of an unsigned 32-bit integer by 36
DivMod36(w) ==
  LET t == ((w.hi % 36) * Half) + w.lo
  IN [q |-> Word(w.hi \div 36, t \div 36), r |-> t % 36]

RECURSIVE toString36(_)
\* Number.prototype.toString(36) of an unsigned 32-bit integer
toString36(w) ==
  IF w.hi = 0 /\ w.lo < 36 THEN <<digitChar(w.lo)>>
  ELSE LET d == DivMod36(w) IN Append(toString36(d.q), digitChar(d.r))

\* variant: the length argument is ignored
substrToEnd(string, start, length) == SubSeq(string, start + 1, Len(string))

\* String.prototype.substr(start, length), start counted from 0
substr(string, start, length) ==
  SubSeq(string, start + 1, IF start + length < Len(string) THEN start + length ELSE Len(string))

\* hash(string, seed); seed >>> 0 keeps the 32 bits as an unsigned integer
hash(string, seed) == substr(toString36(hashLoop(string, Len(string), seed)), 0, 6)

\* JSON.stringify of a string: quotes around it, '"' and '\' escaped
RECURSIVE quoteChars(_)
quoteChars(string) ==
  IF string = <<>> THEN <<>>
  ELSE (IF Head(string) \in {34, 92} THEN <<92, Head(string)>> ELSE <<Head(string)>>)
       \o quoteChars(Tail(string))

quote(string) == <<34>> \o quoteChars(string) \o <<34>>

RECURSIVE stringifyAttributes(_)
\* the members of the attributes object, in the object's key order
stringifyAttributes(attributes) ==
  IF attributes = <<>> THEN <<>>
  ELSE quote(Head(attributes)[1]) \o <<58>> \o quote(Head(attributes)[2])
       \o (IF Len(attributes) > 1 THEN <<44>> ELSE <<>>)
       \o stringifyAttributes(Tail(attributes))

\* JSON.stringify([name, attributes])
stringifyEntity(name, attributes) ==
  <<91>> \o quote(name) \o <<44, 123>> \o stringifyAttributes(attributes) \o <<125, 93>>

generateHashedKey(entity) == hash(stringifyEntity(entity.name, entity.attributes), DefaultSeed)

\* Array.prototype.findIndex(childKey => childKey === key), counted from 1;
\* 0 when no element matches
findIndex(keys, key) ==
  IF \E i \in 1..Len(keys) : keys[i] = key
    THEN CHOOSE i \in 1..Len(keys) : keys[i] = key /\ \A j \in 1..(i - 1) : keys[j] # key
    ELSE 0

\* variant: a key is compared with its left neighbour only
hasDuplicatedChildrenAdjacent(items) ==
  LET hashedKeys == [i \in 1..Len(items) |-> generateHashedKey(items[i])]
  IN \E index \in 2..Len(hashedKeys) : hashedKeys[index] = hashedKeys[index - 1]

hasDuplicatedChildren(items) ==
  LET hashedKeys == [i \in 1..Len(items) |-> generateHashedKey(items[i])]
  IN ~(\A index \in 1..Len(hashedKeys) : index = findIndex(hashedKeys, hashedKeys[index]))

Pending == [done |-> FALSE, value |-> <<>>]
PendingDup == [done |-> FALSE, value |-> FALSE]
Returned(v) == [done |-> TRUE, value |-> v]

\* code units used by the inputs: NUL, '"', 'a', and the largest code unit
Alphabet == {0, 34, 97, 65535}

Strings == UNION { [1..k -> Alphabet] : k \in 0..MaxStrLen }

\* seeds, as the 32 bits they reduce to: 0, 35, 36, the default 5381,
\* 36^6 - 1, 36^6, 2^31 and -1
Seeds ==
  { Word(0, 0), Word(0, 35), Word(0, 36), DefaultSeed,
    Word(33215, 4095), Word(33215, 4096), Word(32768, 0), Word(65535, 65535) }

\* "path", "circle", "d", "cx" and the attribute values "V5", "12", "M1"
sPath == <<112, 97, 116, 104>>
sCircle == <<99, 105, 114, 99, 108, 101>>
sD == <<100>>
sCx == <<99, 120>>
sV5 == <<86, 53>>
s12 == <<49, 50>>
sM1 == <<77, 49>>

Entity(name, attributes) == [name |-> name, attributes |-> attributes]

Entities ==
  { Entity(sPath, <<<<sD, sV5>>>>),
    Entity(sPath, <<<<sD, s12>>>>),
    Entity(sPath, <<<<sD, sM1>>>>),
    Entity(sCircle, <<>>),
    Entity(sCircle, <<<<sCx, s12>>, <<sD, sM1>>>>) }

Collections == UNION { [1..k -> Entities] : k \in 0..MaxChildren }

CallHash ==
  /\ ~hOutput.done
  /\ hOutput' = Returned(hash(hInput.string, hInput.seed))
  /\ UNCHANGED <<hInput, children, dupOutput, renameVars>>

CallHasDuplicatedChildren ==
  /\ ~dupOutput.done
  /\ dupOutput' = Returned(hasDuplicatedChildren(children))
  /\ UNCHANGED <<hInput, hOutput, children, renameVars>>

----------------------------------------------------------------------------
(* Initial trees *)

\* names an aliases list may hold
AliasNames == Names \cup {"z"}

\* the aliases lists of a well-formed record named n: no own name, no duplicate
AliasLists(n) ==
  { s \in UNION { [1..k -> AliasNames \ {n}] : k \in 0..MaxAliases } :
      \A i, j \in 1..Len(s) : i # j => s[i] # s[j] }

\* metadata files as found on disk: unparsable, empty, without aliases (one
\* key written twice), and with each aliases list among other fields
InitTexts(n) ==
  { Garbage,
    JsonText(0, <<>>),
    JsonText(0, <<Member("tags", Str("t1")), Member("x", Str("u")), Member("tags", Str("t2"))>>) }
  \cup { JsonText(2, <<Member("tags", Str("t1")), Member("aliases", Arr(L)), Member("x", Str("u"))>>) :
           L \in AliasLists(n) }

FewTexts(n) ==
  { JsonText(0, <<Member("x", Str(n))>>),
    JsonText(2, <<Member("aliases", Arr(<<"a">>)), Member("x", Str(n))>>) }

SvgOf(n) == IF n = "a" THEN "svgA" ELSE IF n = "b" THEN "svgB" ELSE "svgC"

\* the files an icon may have: none, one of the two, or both
IconFiles(n, texts) ==
  { [svg |-> s, json |-> j] : s \in {NoSvg, SvgOf(n)}, j \in {NoFile} \cup texts }

InitTrees ==
  { [n \in Names |-> IF n = "a" THEN fa ELSE IF n = "b" THEN fb ELSE fc] :
      fa \in IconFiles("a", InitTexts("a")),
      fb \in IconFiles("b", FewTexts("b")),
      fc \in { [svg |-> NoSvg, json |-> NoFile],
               [svg |-> SvgOf("c"), json |-> JsonText(2, <<Member("x", Str("c"))>>)] } }

Init ==
  /\ \E t \in InitTrees, untracked \in SUBSET {"a.svg", "a.json"} :
       /\ svg = [n \in Names |-> t[n].svg]
       /\ json = [n \in Names |-> t[n].json]
       /\ idxSvg = [n \in Names |-> IF n = "a" /\ "a.svg" \in untracked THEN NoSvg ELSE t[n].svg]
       /\ idxJson = [n \in Names |-> IF n = "a" /\ "a.json" \in untracked THEN NoFile ELSE t[n].json]
  /\ pc = "idle"
  /\ oldName = "a"
  /\ newName = "a"
  /\ jsonData = <<>>
  /\ result = "none"
  /\ calls = 0
  /\ steps = <<>>
  /\ pre = Tree
  /\ prev = NoCall
  /\ hInput = [string |-> <<>>, seed |-> DefaultSeed]
  /\ hOutput = Pending
  /\ children = <<>>
  /\ dupOutput = PendingDup

Next ==
  \/ Call
  \/ CheckNewSvg
  \/ CheckNewJson
  \/ CheckOldSvg
  \/ CheckOldJson
  \/ MoveSvg
  \/ MoveJson
  \/ ReadParse
  \/ MigrateWrite
  \/ Stage

Spec == Init /\ [][Next]_vars

InitFingerprint ==
  /\ \/ hInput \in [string : Strings, seed : Seeds] /\ children = <<>>
     \/ hInput = [string |-> <<>>, seed |-> DefaultSeed] /\ children \in Collections
  /\ hOutput = Pending
  /\ dupOutput = PendingDup
  /\ svg = [n \in Names |-> NoSvg]
  /\ json = [n \in Names |-> NoFile]
  /\ idxSvg = [n \in Names |-> NoSvg]
  /\ idxJson = [n \in Names |-> NoFile]
  /\ pc = "idle"
  /\ oldName = "a"
  /\ newName = "a"
  /\ jsonData = <<>>
  /\ result = "none"
  /\ calls = 0
  /\ steps = <<>>
  /\ pre = Tree
  /\ prev = NoCall

NextFingerprint ==
  \/ CallHash
  \/ CallHasDuplicatedChildren

SpecFingerprint == InitFingerprint /\ [][NextFingerprint]_vars

----------------------------------------------------------------------------
(* Properties of the rename workflow *)

Done == pc = "done"
Succeeded == pc = "done" /\ result = "ok"

PreErrors == {"ErrNewSvgExists", "ErrNewJsonExists", "ErrOldSvgMissing", "ErrOldJsonMissing"}

\* the error the first violated precondition raises, taking the checks in the
\* documented order; "none" when all four hold
FirstViolated(tree, old, new) ==
  IF tree.svg[new] # NoSvg THEN "ErrNewSvgExists"
  ELSE IF tree.json[new] # NoFile THEN "ErrNewJsonExists"
  ELSE IF tree.svg[old] = NoSvg THEN "ErrOldSvgMissing"
  ELSE IF tree.json[old] = NoFile THEN "ErrOldJsonMissing"
  ELSE "none"

PreconditionViolated ==
  \/ pre.svg[newName] # NoSvg
  \/ pre.json[newName] # NoFile
  \/ pre.svg[oldName] = NoSvg
  \/ pre.json[oldName] = NoFile

\* the metadata object a file holds
ObjectOf(text) == JSONparse(text)
Keys(obj) == { obj[i].k : i \in 1..Len(obj) }
HasAliasesList(obj) == HasKey(obj, "aliases") /\ Get(obj, "aliases").t = "arr"
NoDuplicates(list) == \A i, j \in 1..Len(list) : i # j => list[i] # list[j]
Contains(list, x) == \E i \in 1..Len(list) : list[i] = x
IsPrefix(s, t) == Len(s) <= Len(t) /\ s = SubSeq(t, 1, Len(s))

StepSequence == <<"moveSvg", "moveJson", "readParse", "write", "stage">>

\* C1: a call whose preconditions do not all hold ends in one of the four
\* precondition errors, and the working tree and the index are what they
\* were when the call started; no step of the procedure has run.
C1_FailedPreconditionMutatesNothing ==
  (Done /\ PreconditionViolated) =>
     /\ result \in PreErrors
     /\ Tree = pre
     /\ steps = <<>>

C1_Witness ==
  /\ Done
  /\ result = "ErrOldJsonMissing"
  /\ pre.svg[oldName] # NoSvg
  /\ Tree = pre

\* C2: the error raised is the one of the first violated check in the order
\* new artwork, new metadata, old artwork, old metadata; when the new
\* artwork exists the error is the artwork "already exists" error whatever
\* the other three files are, and no file has moved.
C2_FirstViolatedCheckDecides ==
  (Done /\ PreconditionViolated) =>
     /\ result = FirstViolated(pre, oldName, newName)
     /\ pre.svg[newName] # NoSvg =>
          /\ result = "ErrNewSvgExists"
          /\ steps = <<>>
          /\ svg = pre.svg /\ json = pre.json

C2_Witness ==
  /\ Done
  /\ result = "ErrNewSvgExists"
  /\ pre.json[newName] # NoFile
  /\ pre.svg[oldName] = NoSvg
  /\ pre.json[oldName] = NoFile
  /\ oldName # newName

\* C3: when the old metadata has an aliases list L, a successful rename
\* persists the list L without the entries equal to newName, followed by
\* oldName.
C3_AliasesListMigrated ==
  (Succeeded /\ HasAliasesList(ObjectOf(pre.json[oldName]))) =>
     /\ json[newName].kind = "json"
     /\ HasKey(ObjectOf(json[newName]), "aliases")
     /\ Get(ObjectOf(json[newName]), "aliases") =
          Arr(Append(SelectSeq(Get(ObjectOf(pre.json[oldName]), "aliases").arr,
                               LAMBDA name : name # newName),
                     oldName))

\* C4: when the old metadata has no aliases list, a successful rename leaves
\* the old artwork and metadata absent, the new ones present, and the new
\* metadata with aliases equal to exactly [oldName].
C4_AliasesCreated ==
  (Succeeded /\ ~HasAliasesList(ObjectOf(pre.json[oldName]))) =>
     /\ svg[oldName] = NoSvg
     /\ json[oldName] = NoFile
     /\ svg[newName] # NoSvg
     /\ json[newName].kind = "json"
     /\ HasKey(ObjectOf(json[newName]), "aliases")
     /\ Get(ObjectOf(json[newName]), "aliases") = Arr(<<oldName>>)

C4_Witness ==
  /\ Succeeded
  /\ ~HasKey(ObjectOf(pre.json[oldName]), "aliases")
  /\ Get(ObjectOf(json[newName]), "aliases") = Arr(<<oldName>>)
  /\ pre.svg[newName] = NoSvg
  /\ svg[newName] = pre.svg[oldName]

\* C5: after successful renames, the aliases of every icon's metadata is a
\* list that holds neither the icon's own name nor the same name twice.
C5_AliasesStayWellFormed ==
  Succeeded =>
    \A n \in Names :
      (json[n].kind = "json" /\ HasKey(ObjectOf(json[n]), "aliases")) =>
         /\ Get(ObjectOf(json[n]), "aliases").t = "arr"
         /\ ~Contains(Get(ObjectOf(json[n]), "aliases").arr, n)
         /\ NoDuplicates(Get(ObjectOf(json[n]), "aliases").arr)

\* C6: renaming an icon without aliases from X to Y and then back from Y to
\* X leaves X's metadata with aliases equal to exactly [Y].
C6_RoundTrip ==
  (/\ Succeeded
   /\ prev.result = "ok" /\ prev.bare
   /\ prev.old = newName /\ prev.new = oldName) =>
     /\ HasKey(ObjectOf(json[newName]), "aliases")
     /\ Get(ObjectOf(json[newName]), "aliases") = Arr(<<oldName>>)

\* C7: a successful rename changes only the aliases field: every other field
\* of the old metadata object is in the new file with the same value and no
\* other field appears, the artwork content is the old one, and the files
\* of the other icons are untouched.
C7_OnlyAliasesChanges ==
  Succeeded =>
    LET before == ObjectOf(pre.json[oldName])
        after == ObjectOf(json[newName])
    IN /\ \A k \in Keys(before) \ {"aliases"} :
            HasKey(after, k) /\ Get(after, k) = Get(before, k)
       /\ Keys(after) \subseteq Keys(before) \cup {"aliases"}
       /\ svg[newName] = pre.svg[oldName]
       /\ \A n \in Names \ {oldName, newName} :
            /\ svg[n] = pre.svg[n] /\ json[n] = pre.json[n]
            /\ idxSvg[n] = pre.idxSvg[n] /\ idxJson[n] = pre.idxJson[n]

C7_Witness ==
  /\ Succeeded
  /\ {"tags", "x"} \subseteq Keys(ObjectOf(json[newName]))
  /\ pre.json[oldName].indent = 0
  /\ Len(pre.json[oldName].members) = 3
  /\ \E n \in Names \ {oldName, newName} : json[n] # NoFile

\* C10: the steps a call has completed are a prefix of the sequence move
\* artwork, move metadata, read and parse, rewrite, stage; a failing step
\* ends the call with its error, and what the earlier steps did stays: a
\* failed metadata move leaves the artwork moved, a parse failure leaves
\* both files moved with the metadata neither rewritten nor staged, a failed
\* staging leaves the rewritten metadata unstaged.
C10_StepsInOrderNoRollback ==
  /\ IsPrefix(steps, StepSequence)
  /\ result # "none" => Done
  /\ (Done /\ result = "ok") => steps = StepSequence
  /\ (Done /\ result = "ErrMoveSvg") => steps = <<>> /\ Tree = pre
  /\ (Done /\ result = "ErrMoveJson") =>
       /\ steps = <<"moveSvg">>
       /\ svg[newName] = pre.svg[oldName] /\ svg[oldName] = NoSvg
       /\ json = pre.json /\ idxJson = pre.idxJson
  /\ (Done /\ Len(steps) >= 2 /\ ParseThrows(pre.json[oldName])) => result = "ErrParse"
  /\ (Done /\ result = "ErrParse") =>
       /\ steps = <<"moveSvg", "moveJson">>
       /\ svg[newName] = pre.svg[oldName] /\ svg[oldName] = NoSvg
       /\ json[newName] = pre.json[oldName] /\ json[oldName] = NoFile
       /\ idxJson[newName] = pre.idxJson[oldName] /\ idxJson[oldName] = NoFile
  /\ (Done /\ result = "ErrAdd") =>
       /\ steps = <<"moveSvg", "moveJson", "readParse", "write">>
       /\ json[newName] = JSONstringify(jsonData, 2)
       /\ json[newName] # pre.json[oldName]
       /\ idxJson[newName] = pre.idxJson[oldName]

C10_Witness ==
  /\ Done
  /\ result = "ErrParse"
  /\ svg[newName] = pre.svg[oldName]
  /\ json[newName] = Garbage
  /\ json[oldName] = NoFile

----------------------------------------------------------------------------
(* Properties of the fingerprint engine *)

KeysOf(items) == [i \in 1..Len(items) |-> generateHashedKey(items[i])]

RECURSIVE FrequencyScan(_, _, _)
\* one pass over the keys with the set of the keys met so far: TRUE at the
\* first key met twice
FrequencyScan(keys, i, seen) ==
  IF i > Len(keys) THEN FALSE
  ELSE IF keys[i] \in seen THEN TRUE
  ELSE FrequencyScan(keys, i + 1, seen \cup {keys[i]})

Base36Chars == (48..57) \cup (97..122)

\* C8: hasDuplicatedChildren returns true exactly when two positions of the
\* collection have the same fingerprint key, as a frequency scan of the keys
\* finds; true when two entities are identical, false for a collection of
\* at most one entity.
C8_DuplicateIffRepeatedKey ==
  dupOutput.done =>
    /\ dupOutput.value = FrequencyScan(KeysOf(children), 1, {})
    /\ dupOutput.value =
         (\E i, j \in 1..Len(children) :
            i < j /\ generateHashedKey(children[i]) = generateHashedKey(children[j]))
    /\ (\E i, j \in 1..Len(children) : i # j /\ children[i] = children[j]) => dupOutput.value
    /\ Len(children) <= 1 => ~dupOutput.value

C8_Witness ==
  /\ dupOutput.done
  /\ dupOutput.value
  /\ Len(children) = 3
  /\ children[1] = children[3]
  /\ generateHashedKey(children[1]) # generateHashedKey(children[2])

\* C9: hash returns 1 to 6 characters, each a digit or a lower-case letter.
C9_HashOutputShape ==
  hOutput.done =>
    /\ Len(hOutput.value) \in 1..6
    /\ \A i \in 1..Len(hOutput.value) : hOutput.value[i] \in Base36Chars

C9_Witness ==
  /\ hOutput.done
  /\ Len(hInput.string) > 0
  /\ Len(toString36(hashLoop(hInput.string, Len(hInput.string), hInput.seed))) = 7
  /\ Len(hOutput.value) = 6

====
